---- MODULE Spec2Model ----
(***************************************************************************)
(* Model of the adaptive staircase controller (SpeechInNoise) and of the   *)
(* level arithmetic (calculate_noise_signal_level) of                      *)
(* src/hearing_test/test_logic.py.                                         *)
(*                                                                         *)
(* Spec       : one SpeechInNoise object driven through its public         *)
(*              operations in any order with any arguments.                *)
(* SpecLevels : the static function calculate_noise_signal_level applied   *)
(*              to inputs drawn from a grid of levels and targets.         *)
(***************************************************************************)
EXTENDS Integers, Sequences, FiniteSets, TLC

VARIABLES
    correct_threshold,        \* SpeechInNoise._correct_threshold
    incorrect_threshold,      \* SpeechInNoise._incorrect_threshold
    step_size,                \* SpeechInNoise._step_size (1-based here)
    reversal_limit,           \* SpeechInNoise._reversal_limit
    minimum_threshold,        \* SpeechInNoise._minimum_threshold
    reversal_count,           \* SpeechInNoise._reversal_count
    previous_action,          \* SpeechInNoise._previous_action
    current_status,           \* SpeechInNoise._current_status
    correct_count_at_max_snr, \* SpeechInNoise.correct_count_at_max_snr
    important_snr,            \* HearingTest._important_snr
    reversal_count_type,      \* Python type of the object _reversal_count holds
    op,                       \* name of the operation called last
    args,                     \* its arguments
    ret,                      \* what it returned or raised
    fine_changes,             \* history: post-change SNRs of finest-step changes
    signal_level,             \* calculate_noise_signal_level: argument
    noise_level,              \* calculate_noise_signal_level: argument
    snr_db,                   \* calculate_noise_signal_level: argument
    levels,                   \* calculate_noise_signal_level: returned pair
    user_state,               \* main.py: the counters kept in state[user_id]
    consecutive,              \* history: lengths of the current run of answers
    changes,                  \* history: direction of each SNR change so far
    state,                    \* main.py: the dictionary state, user_id -> session
    now,                      \* time.time()
    request,                  \* the request served last and its HTTP status
    created                   \* history: when each entry of state was created

config == <<correct_threshold, incorrect_threshold, step_size, reversal_limit,
            minimum_threshold>>
controller == <<reversal_count, previous_action, current_status,
                correct_count_at_max_snr, important_snr, reversal_count_type>>
call == <<op, args, ret, fine_changes>>
level_vars == <<signal_level, noise_level, snr_db, levels>>
session == <<user_state, consecutive, changes>>
server == <<state, now, request, created>>
vars == <<config, controller, call, level_vars, session, server>>

(***************************************************************************)
(* Bounds of the model.                                                    *)
(***************************************************************************)
MaxReversals == 6     \* update_variables is not called past this many reversals
MaxFloor == 6         \* nor past this many correct answers below the minimum
MaxSamples == 2       \* get_next_snr does not append past this many samples
MaxLevel == 77        \* largest signal / noise level given to the level function
MaxIterations == 9    \* handle_response is not called past this iteration
MaxTarget == 26       \* largest target SNR given to the level function

Counts == 0 .. 2                  \* correct_count / incorrect_count arguments
SnrInputs == {0, 1, 10}           \* snr arguments
Levels == 48 .. MaxLevel
Targets == -26 .. MaxTarget

(***************************************************************************)
(* STATUS, test_logic.py lines 9-14.                                       *)
(***************************************************************************)
INIT == "INIT"
INCREASE == "INCREASE"
DECREASE == "DECREASE"
STATUS == {INIT, INCREASE, DECREASE}

(***************************************************************************)
(* Configurations given to SpeechInNoise.__init__.  The first is the one   *)
(* of the test fixture (thresholds 2/1, steps [5,3,1], limit 10) with      *)
(* minimum 0; the second has a short limit and a schedule whose last two   *)
(* steps are equal.                                                        *)
(***************************************************************************)
FixtureConfig ==
    [ct |-> 2, it |-> 1, steps |-> <<5, 3, 1>>, limit |-> 10, min |-> 0]

ShortConfig ==
    [ct |-> 1, it |-> 2, steps |-> <<2, 1, 1>>, limit |-> 3, min |-> 1]

Configs == {FixtureConfig, ShortConfig}

NoArgs == [cc |-> 0, ic |-> 0, snr |-> 0, correct |-> FALSE]
NoRet == [snr |-> 0, stop |-> FALSE, num |-> 0, den |-> 0, raised |-> "none"]

Abs(x) == IF x < 0 THEN -x ELSE x

RECURSIVE Sum(_)
Sum(s) == IF s = <<>> THEN 0 ELSE Head(s) + Sum(Tail(s))

Last(s) == s[Len(s)]

(***************************************************************************)
(* SpeechInNoise.__init__ and HearingTest.__init__.                        *)
(***************************************************************************)
InitController ==
    /\ reversal_count = 0
    /\ reversal_count_type = "int"
    /\ previous_action = INIT
    /\ correct_count_at_max_snr = 0
    /\ current_status = INIT
    /\ important_snr = <<>>

InitLevelsIdle ==
    /\ signal_level = 0
    /\ noise_level = 0
    /\ snr_db = 0
    /\ levels = <<0, 0>>

NoRun == [correct |-> 0, incorrect |-> 0]

\* No session has been started: state holds no entry.
InitSessionIdle ==
    /\ user_state = [snr_db |-> 0, correct_count |-> 0, incorrect_count |-> 0,
                     iteration |-> 0]
    /\ consecutive = NoRun
    /\ changes = <<>>

Users == {"u1", "u2"}

StartTime == 1700000000   \* time.time() when the server starts, in seconds

NoRequest == [route |-> "none", user |-> "none", status |-> 0]

\* The server has just been started: state = {} (main.py, line 22).
InitServerIdle ==
    /\ state = [u \in {} |-> 0]
    /\ created = [u \in {} |-> 0]
    /\ now = StartTime
    /\ request = NoRequest

Construct(c) ==
    /\ correct_threshold = c.ct
    /\ incorrect_threshold = c.it
    /\ step_size = c.steps
    /\ reversal_limit = c.limit
    /\ minimum_threshold = c.min
    /\ InitController

Init ==
    /\ \E c \in Configs : Construct(c)
    /\ op = "init"
    /\ args = NoArgs
    /\ ret = NoRet
    /\ fine_changes = <<>>
    /\ InitLevelsIdle
    /\ InitSessionIdle
    /\ InitServerIdle

\* Faulty variant of _is_reversing: the comparison is inverted.
is_reversing_inverted(new_status) ==
    IF previous_action = INIT THEN FALSE
    ELSE IF previous_action = new_status THEN TRUE
    ELSE FALSE

\* Faulty variant of _is_reversing: the INIT guard is missing.
is_reversing_unguarded(new_status) ==
    IF previous_action = new_status THEN FALSE ELSE TRUE

(***************************************************************************)
(* SpeechInNoise._is_reversing                                              *)
(***************************************************************************)
is_reversing(new_status) ==
    IF previous_action = INIT THEN FALSE
    ELSE IF previous_action = new_status THEN FALSE
    ELSE TRUE

\* Faulty variant of _get_step_size: the last step starts one reversal late.
get_step_size_late ==
    IF reversal_count > 4 THEN step_size[3]
    ELSE IF reversal_count >= 2 THEN step_size[2]
    ELSE step_size[1]

(***************************************************************************)
(* SpeechInNoise._get_step_size (step_size[k] of the code is               *)
(* step_size[k+1] here).                                                   *)
(***************************************************************************)
get_step_size ==
    IF reversal_count >= 4 THEN step_size[3]
    ELSE IF reversal_count >= 2 THEN step_size[2]
    ELSE step_size[1]

(***************************************************************************)
(* The subscript _get_step_size applies to step_size: Python raises        *)
(* IndexError when the list has no such entry.                             *)
(***************************************************************************)
get_step_size_raises ==
    Len(step_size) < (IF reversal_count >= 4 THEN 3
                      ELSE IF reversal_count >= 2 THEN 2
                      ELSE 1)

\* Faulty variant of _get_snr_change: the step is added for DECREASE too.
get_snr_change_up(status) == get_step_size

(***************************************************************************)
(* SpeechInNoise._get_snr_change, for the status get_next_snr just set.    *)
(***************************************************************************)
get_snr_change(status) ==
    IF status = DECREASE THEN get_step_size * (-1) ELSE get_step_size

\* Faulty variant of _update_important_snr: the sample is appended twice.
update_important_snr_twice(new_snr, snr_change) ==
    IF snr_change = Last(step_size)
    THEN Append(Append(important_snr, new_snr), new_snr)
    ELSE important_snr

\* Faulty variant of _update_important_snr: compares with the first step.
update_important_snr_first(new_snr, snr_change) ==
    IF snr_change = step_size[1]
    THEN Append(important_snr, new_snr)
    ELSE important_snr

(***************************************************************************)
(* SpeechInNoise._update_important_snr: the list after the call.           *)
(***************************************************************************)
update_important_snr(new_snr, snr_change) ==
    IF snr_change = Last(step_size)
    THEN Append(important_snr, new_snr)
    ELSE important_snr

\* Faulty variant of the selection: no early return, INCREASE by default.
select_status_no_return(correct_count, incorrect_count) ==
    IF correct_count >= correct_threshold THEN DECREASE ELSE INCREASE

\* Faulty variant of the selection: the incorrect count is tested first.
select_status_swapped(correct_count, incorrect_count) ==
    IF incorrect_count >= incorrect_threshold THEN INCREASE
    ELSE IF correct_count >= correct_threshold THEN DECREASE
    ELSE INIT

(***************************************************************************)
(* The status get_next_snr selects (lines 149-154); INIT stands for the    *)
(* early return of line 154, which sets no status.                         *)
(***************************************************************************)
select_status(correct_count, incorrect_count) ==
    IF correct_count >= correct_threshold THEN DECREASE
    ELSE IF incorrect_count >= incorrect_threshold THEN INCREASE
    ELSE INIT

(***************************************************************************)
(* SpeechInNoise.get_next_snr                                              *)
(***************************************************************************)
get_next_snr(correct_count, incorrect_count, snr) ==
    LET status == select_status(correct_count, incorrect_count)
        snr_change == get_snr_change(status)
        new_snr == snr + snr_change
        samples == update_important_snr(new_snr, Abs(snr_change))
    IN  /\ op' = "get_next_snr"
        /\ args' = [NoArgs EXCEPT !.cc = correct_count, !.ic = incorrect_count,
                                  !.snr = snr]
        /\ IF status = INIT
           THEN /\ ret' = [NoRet EXCEPT !.snr = snr]
                /\ UNCHANGED <<controller, fine_changes>>
           ELSE IF get_step_size_raises
           THEN /\ current_status' = status
                /\ ret' = [NoRet EXCEPT !.raised = "IndexError"]
                /\ UNCHANGED <<reversal_count, previous_action,
                               correct_count_at_max_snr, reversal_count_type,
                               important_snr, fine_changes>>
           ELSE /\ Len(samples) <= MaxSamples
                /\ current_status' = status
                /\ important_snr' = samples
                /\ ret' = [NoRet EXCEPT !.snr = new_snr]
                /\ fine_changes' =
                       IF Abs(new_snr - snr) = step_size[Len(step_size)]
                       THEN Append(fine_changes, new_snr)
                       ELSE fine_changes
                /\ UNCHANGED <<reversal_count, previous_action,
                               correct_count_at_max_snr, reversal_count_type>>
        /\ UNCHANGED <<config, level_vars, session, server>>

\* Faulty variant of the test of line 169: snr <= minimum_threshold.
answered_at_or_below_minimum(correct_response, snr) ==
    correct_response /\ snr <= minimum_threshold

(***************************************************************************)
(* The test of update_variables, line 169.                                 *)
(***************************************************************************)
answered_below_minimum(correct_response, snr) ==
    correct_response /\ snr < minimum_threshold

(***************************************************************************)
(* SpeechInNoise.update_variables                                          *)
(***************************************************************************)
update_variables(correct_response, snr) ==
    /\ reversal_count < MaxReversals
    /\ correct_count_at_max_snr < MaxFloor
    /\ op' = "update_variables"
    /\ args' = [NoArgs EXCEPT !.correct = correct_response, !.snr = snr]
    /\ ret' = NoRet
    /\ correct_count_at_max_snr' =
           IF answered_below_minimum(correct_response, snr)
           THEN correct_count_at_max_snr + 1
           ELSE correct_count_at_max_snr
    /\ reversal_count' =
           IF is_reversing(current_status)
           THEN reversal_count + 1
           ELSE reversal_count
    /\ previous_action' = current_status
    /\ UNCHANGED <<current_status, important_snr, reversal_count_type,
                   fine_changes, config, level_vars, session, server>>

\* Faulty variant of stop_condition: needs more than 6 correct answers
\* below the minimum.
stop_condition_above6 ==
    IF reversal_count >= reversal_limit THEN TRUE
    ELSE IF correct_count_at_max_snr > 6 THEN TRUE
    ELSE FALSE

(***************************************************************************)
(* SpeechInNoise.stop_condition                                            *)
(***************************************************************************)
stop_condition ==
    IF reversal_count >= reversal_limit THEN TRUE
    ELSE IF correct_count_at_max_snr >= 6 THEN TRUE
    ELSE FALSE

\* Faulty variant: correct_count_at_max_snr is tested before _reversal_count.
stop_condition_raises_floor_first ==
    reversal_count_type # "int" /\ correct_count_at_max_snr < 6

\* Faulty variant: a negative _reversal_count or _reversal_limit is refused.
stop_condition_raises_negative ==
    reversal_count_type # "int" \/ reversal_count < 0 \/ reversal_limit < 0

(***************************************************************************)
(* The comparison of line 207 is the first thing stop_condition evaluates: *)
(* Python's >= between a str or None and an int raises TypeError, and      *)
(* nothing converts _reversal_count before it.                             *)
(***************************************************************************)
stop_condition_raises == reversal_count_type # "int"

CallStopCondition ==
    /\ op' = "stop_condition"
    /\ args' = NoArgs
    /\ ret' = IF stop_condition_raises
              THEN [NoRet EXCEPT !.raised = "TypeError"]
              ELSE [NoRet EXCEPT !.stop = stop_condition]
    /\ UNCHANGED <<controller, fine_changes, config, level_vars, session, server>>

\* Faulty variant of srt: 0 instead of an error for an empty list.
srt_zero_when_empty ==
    IF Len(important_snr) = 0
    THEN [NoRet EXCEPT !.num = 0, !.den = 1]
    ELSE [NoRet EXCEPT !.num = Sum(important_snr), !.den = Len(important_snr)]

\* Faulty variant of srt: floor division (//) instead of true division.
srt_floor_division ==
    IF Len(important_snr) = 0
    THEN [NoRet EXCEPT !.raised = "ValueError"]
    ELSE [NoRet EXCEPT !.num = Sum(important_snr) \div Len(important_snr),
                       !.den = 1]

(***************************************************************************)
(* HearingTest.srt: sum(...) / len(...) is kept as the exact fraction      *)
(* num / den; an empty list raises ValueError.                             *)
(***************************************************************************)
srt ==
    IF Len(important_snr) = 0
    THEN [NoRet EXCEPT !.raised = "ValueError"]
    ELSE [NoRet EXCEPT !.num = Sum(important_snr), !.den = Len(important_snr)]

ReadSrt ==
    /\ op' = "srt"
    /\ args' = NoArgs
    /\ ret' = srt
    /\ UNCHANGED <<controller, fine_changes, config, level_vars, session, server>>

(***************************************************************************)
(* SpeechInNoise.calculate_noise_signal_level and its two local functions. *)
(* Each returns the pair <<signal level, noise level>>.                    *)
(***************************************************************************)
\* Faulty variant of increase_snr: signal_level < 60 in the first test.
increase_snr_below60(s, n, step) ==
    IF s < 60 THEN <<s + step, n>>
    ELSE IF n - step > 50 THEN <<s, n - step>>
    ELSE IF s + step < 75 THEN <<s + step, n>>
    ELSE <<s, n - step>>

increase_snr(s, n, step) ==
    IF s <= 60 THEN <<s + step, n>>
    ELSE IF n - step > 50 THEN <<s, n - step>>
    ELSE IF s + step < 75 THEN <<s + step, n>>
    ELSE <<s, n - step>>

\* Faulty variant of reduce_snr: signal_level > 70 in the first test.
reduce_snr_above70(s, n, step) ==
    IF s > 70 THEN <<s - step, n>>
    ELSE IF 55 < n + step /\ n + step < 75 THEN <<s, n + step>>
    ELSE IF 75 > s - step /\ s - step >= 50 THEN <<s - step, n>>
    ELSE <<s, n + step>>

reduce_snr(s, n, step) ==
    IF s >= 70 THEN <<s - step, n>>
    ELSE IF 55 < n + step /\ n + step < 75 THEN <<s, n + step>>
    ELSE IF 75 > s - step /\ s - step >= 50 THEN <<s - step, n>>
    ELSE <<s, n + step>>

\* Faulty variant of current_snr: the operands are swapped.
current_snr_swapped(s, n) == n - s

current_snr(s, n) == s - n

calculate_noise_signal_level(s, n, target) ==
    LET cur == current_snr(s, n)
        step == Abs(cur - target)
    IN  IF cur = target THEN <<s, n>>
        ELSE IF target > cur THEN increase_snr(s, n, step)
        ELSE IF cur > target THEN reduce_snr(s, n, step)
        ELSE <<s, n>>

(***************************************************************************)
(* One call of calculate_noise_signal_level on the arguments chosen by     *)
(* InitLevels.                                                             *)
(***************************************************************************)
CallCalculateLevels ==
    /\ op = "levels_args"
    /\ op' = "calculate_noise_signal_level"
    /\ levels' = calculate_noise_signal_level(signal_level, noise_level, snr_db)
    /\ UNCHANGED <<signal_level, noise_level, snr_db, args, ret, fine_changes,
                   controller, config, session, server>>

InitLevels ==
    /\ Construct(FixtureConfig)
    /\ op = "levels_args"
    /\ args = NoArgs
    /\ ret = NoRet
    /\ fine_changes = <<>>
    /\ signal_level \in Levels
    /\ noise_level \in Levels
    /\ snr_db \in Targets
    /\ levels = <<0, 0>>
    /\ InitSessionIdle
    /\ InitServerIdle

NextLevels == CallCalculateLevels

SpecLevels == InitLevels /\ [][NextLevels]_vars

(***************************************************************************)
(* The stop_condition tests of tests/test_HearingTest.py assign            *)
(* _reversal_count directly (lines 35 and 50) and then call                *)
(* stop_condition().  A str or None keeps a number in reversal_count that  *)
(* nothing may read as an int: "11" keeps 11, None keeps 0.                *)
(***************************************************************************)
AssignedValues ==
    { [type |-> "int", val |-> 11], [type |-> "int", val |-> 9],
      [type |-> "int", val |-> 10], [type |-> "int", val |-> 0],
      [type |-> "int", val |-> -1], [type |-> "str", val |-> 11],
      [type |-> "NoneType", val |-> 0] }

AssignReversalCount ==
    \E v \in AssignedValues :
        /\ reversal_count' = v.val
        /\ reversal_count_type' = v.type
        /\ op' = "assign_reversal_count"
        /\ args' = NoArgs
        /\ ret' = NoRet
        /\ UNCHANGED <<previous_action, current_status,
                       correct_count_at_max_snr, important_snr, fine_changes,
                       config, level_vars, session, server>>

NegativeLimitConfig ==
    [ct |-> 2, it |-> 1, steps |-> <<5, 3, 1>>, limit |-> -1, min |-> 1]

InitAssigned ==
    /\ \E c \in Configs \cup {NegativeLimitConfig} : Construct(c)
    /\ op = "init"
    /\ args = NoArgs
    /\ ret = NoRet
    /\ fine_changes = <<>>
    /\ InitLevelsIdle
    /\ InitSessionIdle
    /\ InitServerIdle

CallGetNextSnr ==
    \E cc \in Counts, ic \in Counts, snr \in SnrInputs :
        get_next_snr(cc, ic, snr)

CallUpdateVariables ==
    \E correct \in BOOLEAN, snr \in SnrInputs :
        update_variables(correct, snr)

Next ==
    \/ CallGetNextSnr
    \/ CallUpdateVariables
    \/ CallStopCondition
    \/ ReadSrt

Spec == Init /\ [][Next]_vars

(***************************************************************************)
(* SpecSession: one participant's session of main.py after /start.         *)
(* HandleResponse is the part of handle_response that drives the           *)
(* controller, lines 191-204, entered once the record of the round has     *)
(* been read at line 187; matched is the outcome of check_answer.          *)
(* get_next_snr runs first and update_variables second, so                 *)
(* update_variables sees the status get_next_snr has just set.             *)
(***************************************************************************)
SessionConfig ==
    [ct |-> 2, it |-> 2, steps |-> <<2, 1, 1>>, limit |-> 3, min |-> 1]

StartSnrs == {2, 10}

InitSession ==
    /\ \E c \in {FixtureConfig, SessionConfig} : Construct(c)
    /\ op = "start_test"
    /\ args = NoArgs
    /\ ret = NoRet
    /\ fine_changes = <<>>
    /\ InitLevelsIdle
    /\ \E start_snr \in StartSnrs :
           user_state = [snr_db |-> start_snr, correct_count |-> 0,
                         incorrect_count |-> 0, iteration |-> 1]
    /\ consecutive = NoRun
    /\ changes = <<>>
    /\ InitServerIdle

\* Faulty variant of lines 201-204: only correct_count is set back to 0.
store_new_snr_half(new_snr, correct_count, incorrect_count) ==
    IF new_snr # user_state.snr_db
    THEN [snr_db |-> new_snr, correct_count |-> 0,
          incorrect_count |-> incorrect_count,
          iteration |-> user_state.iteration + 1]
    ELSE [user_state EXCEPT !.correct_count = correct_count,
                            !.incorrect_count = incorrect_count]

(***************************************************************************)
(* handle_response, lines 201-204: state[user_id] after the response, the  *)
(* two counters having been increased at lines 191-194.                    *)
(***************************************************************************)
store_new_snr(new_snr, correct_count, incorrect_count) ==
    IF new_snr # user_state.snr_db
    THEN [snr_db |-> new_snr, correct_count |-> 0,
          incorrect_count |-> 0,
          iteration |-> user_state.iteration + 1]
    ELSE [user_state EXCEPT !.correct_count = correct_count,
                            !.incorrect_count = incorrect_count]

handle_response(matched) ==
        LET correct_count ==
                user_state.correct_count + (IF matched THEN 1 ELSE 0)
            incorrect_count ==
                user_state.incorrect_count + (IF matched THEN 0 ELSE 1)
            status == select_status(correct_count, incorrect_count)
            snr_change == get_snr_change(status)
            new_snr == IF status = INIT THEN user_state.snr_db
                       ELSE user_state.snr_db + snr_change
            samples == IF status = INIT THEN important_snr
                       ELSE update_important_snr(new_snr, Abs(snr_change))
            set_status == IF status = INIT THEN current_status ELSE status
        IN  /\ user_state.iteration < MaxIterations
            /\ reversal_count < MaxReversals
            /\ correct_count_at_max_snr < MaxFloor
            /\ Len(samples) <= MaxSamples
            /\ status = INIT \/ ~get_step_size_raises
            /\ current_status' = set_status
            /\ important_snr' = samples
            /\ correct_count_at_max_snr' =
                   IF answered_below_minimum(matched, user_state.snr_db)
                   THEN correct_count_at_max_snr + 1
                   ELSE correct_count_at_max_snr
            /\ reversal_count' =
                   IF is_reversing(set_status)
                   THEN reversal_count + 1
                   ELSE reversal_count
            /\ previous_action' = set_status
            /\ user_state' =
                   store_new_snr(new_snr, correct_count, incorrect_count)
            /\ consecutive' =
                   IF matched
                   THEN [correct |-> consecutive.correct + 1, incorrect |-> 0]
                   ELSE [correct |-> 0, incorrect |-> consecutive.incorrect + 1]
            /\ changes' =
                   IF new_snr > user_state.snr_db
                   THEN Append(changes, INCREASE)
                   ELSE IF new_snr < user_state.snr_db
                   THEN Append(changes, DECREASE)
                   ELSE changes
            /\ op' = "handle_response"
            /\ args' = [cc |-> correct_count, ic |-> incorrect_count,
                        snr |-> user_state.snr_db, correct |-> matched]
            /\ ret' = [NoRet EXCEPT !.snr = new_snr]
            /\ fine_changes' =
                   IF status # INIT /\ Abs(snr_change) = Last(step_size)
                   THEN Append(fine_changes, new_snr)
                   ELSE fine_changes
            /\ UNCHANGED <<reversal_count_type, config, level_vars, server>>

HandleResponse == \E matched \in BOOLEAN : handle_response(matched)

NextSession ==
    \/ HandleResponse
    \/ CallStopCondition

SpecSession == InitSession /\ [][NextSession]_vars

(***************************************************************************)
(* SpecSessionFair: the session whose participant keeps answering.  Each   *)
(* trial waits for one response, so a session goes on exactly as long as   *)
(* responses arrive: weak fairness of HandleResponse.                      *)
(***************************************************************************)
SpecSessionFair == SpecSession /\ WF_vars(HandleResponse)

(***************************************************************************)
(* SpecServer: the routes of main.py serving several participants.  Every  *)
(* user of Users has visited home and carries a user_id cookie.  The       *)
(* configuration variables hold the test section of config.yaml, read      *)
(* anew by every /start.                                                   *)
(***************************************************************************)
Timeout == 1800       \* cleanup_state(timeout=1800), in seconds

TickStep == 600       \* the clock is observed every 600 seconds

MaxTicks == 4         \* the clock is not advanced past this many steps

\* SpeechInNoise.__init__, as TestManager.__init__ calls it for each manager.
NewHearingTest ==
    [reversal_count |-> 0, previous_action |-> INIT, current_status |-> INIT,
     correct_count_at_max_snr |-> 0, important_snr |-> <<>>]

\* The per-user dictionary of start_practice / start_test.  track_results
\* is kept as its set of iteration keys, srt_saved stands for its "SRT" key,
\* has_last_update for the presence of the "last_update" key.
NewSession ==
    [hearing_test |-> NewHearingTest, snr_db |-> 10, signal_level |-> 65,
     noise_level |-> 60, correct_count |-> 0, incorrect_count |-> 0,
     iteration |-> 1, track_results |-> {}, srt_saved |-> FALSE,
     has_last_update |-> FALSE, last_update |-> 0]

\* s.get("last_update", 0)
last_update_of(s) == IF s.has_last_update THEN s.last_update ELSE 0

\* Faulty variant of cleanup_state: every session is removed.
cleanup_state_all(timeout) == DOMAIN state

\* cleanup_state: the list to_remove.
cleanup_state(timeout) ==
    {uid \in DOMAIN state : now - last_update_of(state[uid]) > timeout}

\* start_practice and start_test differ in the test_mode they configure only.
Start(u) ==
    \E route \in {"start_practice", "start"} :
        LET kept == (DOMAIN state \ cleanup_state(Timeout)) \cup {u}
        IN  /\ state' = [v \in kept |-> IF v = u THEN NewSession ELSE state[v]]
            /\ created' = [v \in kept |-> IF v = u THEN now ELSE created[v]]
            /\ request' = [route |-> route, user |-> u, status |-> 200]
            /\ UNCHANGED <<now, config, controller, call, level_vars, session>>

(***************************************************************************)
(* next_round.  When the test has not stopped, line 127 calls              *)
(* calculate_noise_signal_level with two of its three arguments: TypeError,*)
(* answered with status 500, before the round is stored at line 153.       *)
(***************************************************************************)
NextRound(u) ==
    /\ IF u \notin DOMAIN state
       THEN /\ request' = [route |-> "next", user |-> u, status |-> 404]
            /\ UNCHANGED state
       ELSE LET s == [state[u] EXCEPT !.has_last_update = TRUE,
                                      !.last_update = now]
                h == s.hearing_test
                stop == \/ h.reversal_count >= reversal_limit
                        \/ h.correct_count_at_max_snr >= 6
            IN  IF stop /\ h.important_snr # <<>>
                THEN /\ state' = [state EXCEPT ![u] =
                                     [s EXCEPT !.srt_saved = TRUE]]
                     /\ request' = [route |-> "next", user |-> u,
                                    status |-> 200]
                ELSE /\ state' = [state EXCEPT ![u] = s]
                     /\ request' = [route |-> "next", user |-> u,
                                    status |-> 500]
    /\ UNCHANGED <<created, now, config, controller, call, level_vars, session>>

(***************************************************************************)
(* handle_response, lines 191-204, on the dictionary s of one user and its *)
(* own SpeechInNoise object: get_next_snr, then update_variables, then the *)
(* counters.                                                               *)
(***************************************************************************)
respond(s, matched) ==
    LET h == s.hearing_test
        correct_count == s.correct_count + (IF matched THEN 1 ELSE 0)
        incorrect_count == s.incorrect_count + (IF matched THEN 0 ELSE 1)
        status == select_status(correct_count, incorrect_count)
        step == IF h.reversal_count >= 4 THEN step_size[3]
                ELSE IF h.reversal_count >= 2 THEN step_size[2]
                ELSE step_size[1]
        snr_change == IF status = DECREASE THEN step * (-1) ELSE step
        new_snr == IF status = INIT THEN s.snr_db ELSE s.snr_db + snr_change
        set_status == IF status = INIT THEN h.current_status ELSE status
        reversing == /\ h.previous_action # INIT
                     /\ h.previous_action # set_status
        after == [reversal_count |->
                      h.reversal_count + (IF reversing THEN 1 ELSE 0),
                  previous_action |-> set_status,
                  current_status |-> set_status,
                  correct_count_at_max_snr |->
                      h.correct_count_at_max_snr
                          + (IF matched /\ s.snr_db < minimum_threshold
                             THEN 1 ELSE 0),
                  important_snr |->
                      IF status # INIT /\ Abs(snr_change) = Last(step_size)
                      THEN Append(h.important_snr, new_snr)
                      ELSE h.important_snr]
    IN  IF new_snr # s.snr_db
        THEN [s EXCEPT !.hearing_test = after, !.snr_db = new_snr,
                       !.correct_count = 0, !.incorrect_count = 0,
                       !.iteration = s.iteration + 1]
        ELSE [s EXCEPT !.hearing_test = after,
                       !.correct_count = correct_count,
                       !.incorrect_count = incorrect_count]

(***************************************************************************)
(* handle_response.  Line 187 reads track_results[iteration]: KeyError,    *)
(* answered with status 500, when /next has stored no round for it.        *)
(***************************************************************************)
Response(u) ==
    \E audio \in BOOLEAN, matched \in BOOLEAN :
        /\ IF u \notin DOMAIN state
           THEN /\ request' = [route |-> "response", user |-> u,
                               status |-> 404]
                /\ UNCHANGED state
           ELSE IF ~audio
           THEN /\ request' = [route |-> "response", user |-> u,
                               status |-> 400]
                /\ UNCHANGED state
           ELSE IF state[u].iteration \notin state[u].track_results
           THEN /\ request' = [route |-> "response", user |-> u,
                               status |-> 500]
                /\ UNCHANGED state
           ELSE /\ request' = [route |-> "response", user |-> u,
                               status |-> 200]
                /\ state' = [state EXCEPT ![u] = respond(state[u], matched)]
        /\ UNCHANGED <<created, now, config, controller, call, level_vars,
                       session>>

\* home: a user_id cookie is present, so the user's old entry is popped.
Home(u) ==
    /\ state' = [v \in DOMAIN state \ {u} |-> state[v]]
    /\ created' = [v \in DOMAIN created \ {u} |-> created[v]]
    /\ request' = [route |-> "home", user |-> u, status |-> 200]
    /\ UNCHANGED <<now, config, controller, call, level_vars, session>>

\* Time passes between two requests.
Tick ==
    /\ now < StartTime + MaxTicks * TickStep
    /\ now' = now + TickStep
    /\ UNCHANGED <<state, created, request, config, controller, call,
                   level_vars, session>>

InitServer ==
    /\ Construct(FixtureConfig)
    /\ op = "init"
    /\ args = NoArgs
    /\ ret = NoRet
    /\ fine_changes = <<>>
    /\ InitLevelsIdle
    /\ InitSessionIdle
    /\ InitServerIdle

NextServer ==
    \/ \E u \in Users : Start(u)
    \/ \E u \in Users : NextRound(u)
    \/ \E u \in Users : Response(u)
    \/ \E u \in Users : Home(u)
    \/ Tick

SpecServer == InitServer /\ [][NextServer]_vars

(***************************************************************************)
(* SpecMalformed: the same calls on controllers constructed from           *)
(* configurations with a zero or negative threshold, a zero step, or a     *)
(* schedule of fewer than three steps.  __init__ stores its arguments      *)
(* unchecked, so each construction succeeds.                               *)
(***************************************************************************)
ZeroThresholdConfig ==
    [ct |-> 0, it |-> 1, steps |-> <<5, 3, 1>>, limit |-> 3, min |-> 1]

NegativeThresholdConfig ==
    [ct |-> 2, it |-> -1, steps |-> <<5, 3, 1>>, limit |-> 3, min |-> 1]

ZeroStepConfig ==
    [ct |-> 1, it |-> 1, steps |-> <<2, 1, 0>>, limit |-> 3, min |-> 1]

ShortScheduleConfig ==
    [ct |-> 1, it |-> 1, steps |-> <<5, 3>>, limit |-> 10, min |-> 1]

MalformedConfigs ==
    {ZeroThresholdConfig, NegativeThresholdConfig, ZeroStepConfig,
     ShortScheduleConfig}

InitMalformed ==
    /\ \E c \in MalformedConfigs : Construct(c)
    /\ op = "init"
    /\ args = NoArgs
    /\ ret = NoRet
    /\ fine_changes = <<>>
    /\ InitLevelsIdle
    /\ InitSessionIdle
    /\ InitServerIdle

SpecMalformed == InitMalformed /\ [][Next]_vars

(***************************************************************************)
(* SpecAssigned: the object as the stop_condition tests drive it.  No      *)
(* get_next_snr call is made, so current_status stays INIT,                *)
(* update_variables counts no reversal and never reads _reversal_count.    *)
(***************************************************************************)
NextAssigned ==
    \/ AssignReversalCount
    \/ CallStopCondition
    \/ CallUpdateVariables

SpecAssigned == InitAssigned /\ [][NextAssigned]_vars

(***************************************************************************)
(* Properties.  A step with op' = "get_next_snr" is a get_next_snr call    *)
(* with the arguments args' and the return value ret'; unprimed variables  *)
(* are the object's state when the call was made.                          *)
(***************************************************************************)

\* C1: get_next_snr returns snr minus the selected step, with direction
\* DECREASE, whenever correct_count >= correct_threshold (also when
\* incorrect_count >= incorrect_threshold holds too); otherwise, when
\* incorrect_count >= incorrect_threshold, it returns snr plus the selected
\* step, with direction INCREASE.
C1_DirectionOfChange ==
    [][op' = "get_next_snr" =>
        /\ args'.cc >= correct_threshold =>
              /\ ret'.snr = args'.snr - get_step_size
              /\ current_status' = DECREASE
        /\ (args'.cc < correct_threshold /\ args'.ic >= incorrect_threshold) =>
              /\ ret'.snr = args'.snr + get_step_size
              /\ current_status' = INCREASE]_vars

\* A call with both thresholds met has decreased the SNR.
C1_Witness ==
    /\ op = "get_next_snr"
    /\ args.cc >= correct_threshold
    /\ args.ic >= incorrect_threshold
    /\ ret.snr < args.snr
    /\ current_status = DECREASE

\* C2: the magnitude of the step of an SNR-changing get_next_snr call is
\* step_size[2] when reversal_count >= 4 at the call, step_size[1] when
\* 2 <= reversal_count < 4 and step_size[0] when reversal_count < 2; with
\* thresholds 2/1, steps [5,3,1] and reversal_count 0, get_next_snr(2,0,10)
\* returns 5.
C2_StepMagnitude ==
    [][(op' = "get_next_snr" /\ ret'.snr # args'.snr) =>
        /\ reversal_count >= 4 => Abs(ret'.snr - args'.snr) = step_size[3]
        /\ (2 <= reversal_count /\ reversal_count < 4) =>
              Abs(ret'.snr - args'.snr) = step_size[2]
        /\ reversal_count < 2 => Abs(ret'.snr - args'.snr) = step_size[1]
        /\ ( /\ correct_threshold = 2
             /\ incorrect_threshold = 1
             /\ step_size = <<5, 3, 1>>
             /\ reversal_count = 0
             /\ args' = [NoArgs EXCEPT !.cc = 2, !.snr = 10] ) =>
              ret'.snr = 5]_vars

\* The scenario get_next_snr(2, 0, 10) = 5 has happened.
C2_Witness ==
    /\ op = "get_next_snr"
    /\ step_size = <<5, 3, 1>>
    /\ reversal_count = 0
    /\ args = [NoArgs EXCEPT !.cc = 2, !.snr = 10]
    /\ ret.snr = 5

\* C3: a get_next_snr call appends exactly one value, the new SNR, to
\* important_snr if and only if it changes the SNR and the magnitude of the
\* step it applied equals the last entry of step_size; in every other case
\* the list is left as it was.
C3_SampleAppended ==
    [][op' = "get_next_snr" =>
        important_snr' =
            IF /\ ret'.snr # args'.snr
               /\ Abs(ret'.snr - args'.snr) = step_size[Len(step_size)]
            THEN Append(important_snr, ret'.snr)
            ELSE important_snr]_vars

\* A finest-step change has been sampled.
C3_Witness ==
    /\ op = "get_next_snr"
    /\ ret.snr # args.snr
    /\ Abs(ret.snr - args.snr) = step_size[Len(step_size)]
    /\ important_snr # <<>>
    /\ Last(important_snr) = ret.snr

\* C4: update_variables increments reversal_count by exactly 1 if and only
\* if previous_action is not INIT and current_status differs from
\* previous_action at the call; otherwise reversal_count is unchanged.
C4_ReversalCounted ==
    [][op' = "update_variables" =>
        reversal_count' =
            IF previous_action # INIT /\ current_status # previous_action
            THEN reversal_count + 1
            ELSE reversal_count]_vars

\* update_variables has counted reversals.
C4_Witness ==
    /\ op = "update_variables"
    /\ reversal_count >= 2
    /\ previous_action = current_status

C6_StrictlyAboveLimit ==
    (op = "stop_condition" /\ correct_count_at_max_snr < 6) =>
        (ret.stop <=> reversal_count > reversal_limit)

\* C7: reading srt while important_snr is empty raises (no number is
\* returned) and leaves the controller as it was; a read made when the list
\* is not empty returns a number.
C7_SrtOfEmptyList ==
    [][op' = "srt" =>
        /\ important_snr = <<>> =>
              /\ ret'.raised = "ValueError"
              /\ ret'.den = 0
              /\ UNCHANGED <<controller, config>>
        /\ important_snr # <<>> =>
              /\ ret'.raised = "none"
              /\ ret'.den > 0]_vars

\* srt has been read on an empty list.
C7_Witness ==
    /\ op = "srt"
    /\ important_snr = <<>>
    /\ ret.raised = "ValueError"

\* C8: whenever important_snr is not empty, srt is the sum divided by the
\* count of exactly the values of important_snr, which are the post-change
\* SNRs of all finest-step changes made so far and nothing else; samples
\* [1, 2] give 1.5 (= 3/2).
C8_SrtIsMean ==
    (op = "srt" /\ important_snr # <<>>) =>
        /\ ret.raised = "none"
        /\ important_snr = fine_changes
        /\ ret.den > 0
        /\ ret.num * Len(fine_changes) = Sum(fine_changes) * ret.den
        /\ important_snr = <<1, 2>> => 2 * ret.num = 3 * ret.den

\* srt has been read on the samples [1, 2].
C8_Witness ==
    /\ op = "srt"
    /\ important_snr = <<1, 2>>
    /\ 2 * ret.num = 3 * ret.den
    /\ ret.den > 0

\* C9: calculate_noise_signal_level(s, n, target) returns (s, n) unchanged
\* whenever s - n = target.
C9_UnchangedAtTarget ==
    (op = "calculate_noise_signal_level" /\ signal_level - noise_level = snr_db)
        => levels = <<signal_level, noise_level>>

\* calculate_noise_signal_level(65, 60, 5) has returned (65, 60).
C9_Witness ==
    /\ op = "calculate_noise_signal_level"
    /\ signal_level = 65
    /\ noise_level = 60
    /\ snr_db = 5
    /\ levels = <<65, 60>>

\* C10: when target > signal - noise, with step = target - (signal - noise),
\* the result is (signal+step, noise) if signal <= 60; else
\* (signal, noise-step) if noise - step > 50; else (signal+step, noise) if
\* signal + step < 75; else (signal, noise-step); (58, 60, 10) gives (70, 60).
C10_IncreaseBranches ==
    (op = "calculate_noise_signal_level" /\ snr_db > signal_level - noise_level)
        => LET s == signal_level
               n == noise_level
               step == snr_db - (signal_level - noise_level)
           IN  /\ s <= 60 => levels = <<s + step, n>>
               /\ (s > 60 /\ n - step > 50) => levels = <<s, n - step>>
               /\ (s > 60 /\ n - step <= 50 /\ s + step < 75) =>
                      levels = <<s + step, n>>
               /\ (s > 60 /\ n - step <= 50 /\ s + step >= 75) =>
                      levels = <<s, n - step>>
               /\ (s = 58 /\ n = 60 /\ snr_db = 10) => levels = <<70, 60>>

\* The third branch was taken: the signal is above 60, the noise cannot be
\* lowered to above 50, and the signal was raised to below 75.
C10_Witness ==
    /\ op = "calculate_noise_signal_level"
    /\ snr_db > signal_level - noise_level
    /\ signal_level > 60
    /\ noise_level - (snr_db - (signal_level - noise_level)) <= 50
    /\ levels[1] > signal_level
    /\ levels[1] < 75
    /\ levels[2] = noise_level

\* C11: when target < signal - noise, with step = (signal - noise) - target,
\* the result is (signal-step, noise) if signal >= 70; else
\* (signal, noise+step) if 55 < noise + step < 75; else (signal-step, noise)
\* if 50 <= signal - step < 75; else (signal, noise+step).
C11_ReduceBranches ==
    (op = "calculate_noise_signal_level" /\ snr_db < signal_level - noise_level)
        => LET s == signal_level
               n == noise_level
               step == (signal_level - noise_level) - snr_db
               raise_noise == 55 < n + step /\ n + step < 75
               lower_signal == 50 <= s - step /\ s - step < 75
           IN  /\ s >= 70 => levels = <<s - step, n>>
               /\ (s < 70 /\ raise_noise) => levels = <<s, n + step>>
               /\ (s < 70 /\ ~raise_noise /\ lower_signal) =>
                      levels = <<s - step, n>>
               /\ (s < 70 /\ ~raise_noise /\ ~lower_signal) =>
                      levels = <<s, n + step>>

\* The last branch was taken: the signal is below 70, the raised noise is
\* not inside (55, 75), the lowered signal is not inside [50, 75), and the
\* noise was raised.
C11_Witness ==
    /\ op = "calculate_noise_signal_level"
    /\ snr_db < signal_level - noise_level
    /\ signal_level < 70
    /\ levels[1] = signal_level
    /\ levels[2] >= 75
    /\ signal_level - (levels[2] - noise_level) < 50

\* C12: for every input with signal level and noise level both in [50, 75],
\* the returned signal level and noise level are both in [50, 75]; in
\* particular the returned noise level never exceeds 75.
C12_LevelsStayInRange ==
    ( /\ op = "calculate_noise_signal_level"
      /\ 50 <= signal_level /\ signal_level <= 75
      /\ 50 <= noise_level /\ noise_level <= 75 )
        => /\ 50 <= levels[1] /\ levels[1] <= 75
           /\ 50 <= levels[2] /\ levels[2] <= 75

\* C13: when neither correct_count >= correct_threshold nor
\* incorrect_count >= incorrect_threshold holds, get_next_snr returns the SNR
\* it was given and leaves current_status, previous_action, reversal_count,
\* correct_count_at_max_snr and important_snr unchanged.
C13_NoChangeBelowThresholds ==
    [][( /\ op' = "get_next_snr"
         /\ args'.cc < correct_threshold
         /\ args'.ic < incorrect_threshold ) =>
        /\ ret'.snr = args'.snr
        /\ ret'.raised = "none"
        /\ UNCHANGED <<current_status, previous_action, reversal_count,
                       correct_count_at_max_snr, important_snr>>]_vars

\* A call below both thresholds was made on a controller that had already
\* changed the SNR and counted a reversal.
C13_Witness ==
    /\ op = "get_next_snr"
    /\ args.cc < correct_threshold
    /\ args.ic < incorrect_threshold
    /\ ret.snr = args.snr
    /\ current_status # INIT
    /\ reversal_count >= 1

\* C14 as stated: get_next_snr never changes reversal_count,
\* previous_action or current_status; the only state change it can make is
\* one append to important_snr.
C14_NoDirectionStateChange ==
    [][op' = "get_next_snr" =>
        /\ UNCHANGED <<reversal_count, previous_action, current_status,
                       correct_count_at_max_snr>>
        /\ \/ important_snr' = important_snr
           \/ important_snr' = Append(important_snr, ret'.snr)]_vars

\* C14 as amended: get_next_snr never changes reversal_count or
\* previous_action (nor correct_count_at_max_snr); the only state changes it
\* can make are setting current_status to the direction it selected, when a
\* threshold is met, and one append of the new SNR to important_snr.
C14_OnlyStatusAndSample ==
    [][op' = "get_next_snr" =>
        /\ UNCHANGED <<reversal_count, previous_action,
                       correct_count_at_max_snr>>
        /\ \/ current_status' = current_status
           \/ /\ args'.cc >= correct_threshold
              /\ current_status' = DECREASE
           \/ /\ args'.cc < correct_threshold
              /\ args'.ic >= incorrect_threshold
              /\ current_status' = INCREASE
        /\ \/ important_snr' = important_snr
           \/ important_snr' = Append(important_snr, ret'.snr)]_vars

\* A get_next_snr call has set current_status to a direction other than the
\* one update_variables recorded last, and has appended a sample.
C14_Witness ==
    /\ op = "get_next_snr"
    /\ previous_action # INIT
    /\ current_status # previous_action
    /\ important_snr # <<>>
    /\ Last(important_snr) = ret.snr

\* C15: over every sequence of get_next_snr and update_variables calls,
\* reversal_count never decreases and grows by at most 1 per direction
\* change.  It grows only in an update_variables call made while
\* current_status differs from previous_action; every update_variables call
\* leaves the two equal, and they stay equal until a get_next_snr call
\* changes current_status, so repeated update_variables calls with no
\* direction-changing get_next_snr between them increment it at most once.
C15_OneReversalPerChange ==
    [][/\ reversal_count' >= reversal_count
       /\ reversal_count' <= reversal_count + 1
       /\ reversal_count' # reversal_count =>
             /\ op' = "update_variables"
             /\ current_status # previous_action
       /\ op' = "update_variables" => previous_action' = current_status'
       /\ (previous_action = current_status /\ current_status' = current_status)
             => /\ reversal_count' = reversal_count
                /\ previous_action' = current_status']_vars

\* update_variables has been called after three direction changes.
C15_Witness ==
    /\ op = "update_variables"
    /\ reversal_count = 3
    /\ previous_action = INCREASE
    /\ current_status = INCREASE

C17_NonIntegerRaises ==
    (op = "stop_condition" /\ reversal_count_type \in {"str", "NoneType"})
        => ret.raised = "TypeError"

\* The call raised although the floor counter alone would have stopped.
C17_Witness ==
    /\ op = "stop_condition"
    /\ reversal_count_type = "str"
    /\ correct_count_at_max_snr >= 6
    /\ ret.raised = "TypeError"

(***************************************************************************)
(* C18, as stated: stop_condition() called while _reversal_count or        *)
(* _reversal_limit is a negative integer raises an error.                  *)
(***************************************************************************)
C18_NegativeRaises ==
    (/\ op = "stop_condition"
     /\ reversal_count_type = "int"
     /\ (reversal_count < 0 \/ reversal_limit < 0))
        => ret.raised # "none"

(***************************************************************************)
(* C18, amended: with a negative integer in _reversal_count or             *)
(* _reversal_limit stop_condition() raises nothing and returns             *)
(* reversal_count >= reversal_limit or correct_count_at_max_snr >= 6.      *)
(***************************************************************************)
C18_NegativeReturnsBoolean ==
    (/\ op = "stop_condition"
     /\ reversal_count_type = "int"
     /\ (reversal_count < 0 \/ reversal_limit < 0))
        => /\ ret.raised = "none"
           /\ ret.stop = (\/ reversal_count >= reversal_limit
                          \/ correct_count_at_max_snr >= 6)

\* The case of the test: _reversal_count = -1 under limit 10 answers False.
C18_Witness ==
    /\ op = "stop_condition"
    /\ reversal_count_type = "int"
    /\ reversal_count = -1
    /\ reversal_limit = 10
    /\ ret.raised = "none"
    /\ ret.stop = FALSE

(***************************************************************************)
(* C19: no get_next_snr call is ever made on a controller whose            *)
(* configuration is malformed (a threshold or step that is not positive,   *)
(* or fewer than 3 steps), because its construction fails.                 *)
(***************************************************************************)
C19_NoCallOnMalformed ==
    op = "get_next_snr" =>
        /\ correct_threshold > 0
        /\ incorrect_threshold > 0
        /\ Len(step_size) >= 3
        /\ \A i \in 1 .. Len(step_size) : step_size[i] > 0

(***************************************************************************)
(* C20: in a session the SNR is decreased only right after                 *)
(* correct_threshold consecutive correct responses, and increased only     *)
(* right after incorrect_threshold consecutive incorrect responses: a      *)
(* response of the other kind in between restarts the run.                 *)
(***************************************************************************)
C20_ConsecutiveResponses ==
    [][op' = "handle_response" =>
          /\ user_state'.snr_db < user_state.snr_db =>
                 consecutive'.correct >= correct_threshold
          /\ user_state'.snr_db > user_state.snr_db =>
                 consecutive'.incorrect >= incorrect_threshold]_vars

(***************************************************************************)
(* C21: a response that changes the session's SNR leaves correct_count and *)
(* incorrect_count at 0 for the next trial; a response that does not       *)
(* change it resets neither: each keeps its value, plus 1 for the one the  *)
(* response counted in.                                                    *)
(***************************************************************************)
C21_CountersResetOnChange ==
    [][op' = "handle_response" =>
          /\ user_state'.snr_db # user_state.snr_db =>
                 /\ user_state'.correct_count = 0
                 /\ user_state'.incorrect_count = 0
          /\ user_state'.snr_db = user_state.snr_db =>
                 /\ user_state'.correct_count =
                        user_state.correct_count
                            + (IF args'.correct THEN 1 ELSE 0)
                 /\ user_state'.incorrect_count =
                        user_state.incorrect_count
                            + (IF args'.correct THEN 0 ELSE 1)]_vars

\* A change made while both counters were above 0 has set both back to 0.
C21_Witness ==
    /\ op = "handle_response"
    /\ args.cc >= 1
    /\ args.ic >= 1
    /\ ret.snr # args.snr
    /\ user_state.snr_db = ret.snr
    /\ user_state.correct_count = 0
    /\ user_state.incorrect_count = 0

(***************************************************************************)
(* C23: in a session, after each response previous_action is the direction *)
(* of the most recent SNR change, and INIT if and only if the SNR has not  *)
(* changed yet; once it is INCREASE or DECREASE it never is INIT again.    *)
(***************************************************************************)
C23_PreviousIsLastChange ==
    [][/\ op' = "handle_response" =>
             previous_action' = IF changes' = <<>> THEN INIT
                                ELSE changes'[Len(changes')]
       /\ previous_action # INIT => previous_action' # INIT]_vars

\* A response that left the SNR alone, after a decrease that followed an
\* increase.
C23_Witness ==
    /\ op = "handle_response"
    /\ ret.snr = args.snr
    /\ Len(changes) >= 2
    /\ changes[Len(changes)] = DECREASE
    /\ changes[Len(changes) - 1] = INCREASE
    /\ previous_action = DECREASE

(***************************************************************************)
(* C27: in a session, after each response reversal_count is the number of  *)
(* SNR changes whose direction differs from that of the SNR change before  *)
(* it, and a response that does not change the SNR adds no reversal.       *)
(***************************************************************************)
C27_ReversalsAreDirectionChanges ==
    [][/\ reversal_count' =
             Cardinality({i \in 2 .. Len(changes') :
                             changes'[i] # changes'[i - 1]})
       /\ (op' = "handle_response" /\ user_state'.snr_db = user_state.snr_db)
             => reversal_count' = reversal_count]_vars

\* Three reversals in four changes, then a response without a change.
C27_Witness ==
    /\ op = "handle_response"
    /\ ret.snr = args.snr
    /\ Len(changes) = 4
    /\ reversal_count = 3

C25_StopImpliesSamples ==
    stop_condition => important_snr # <<>>

(***************************************************************************)
(* C26: with a schedule of three steps, under any interleaving of          *)
(* get_next_snr and update_variables calls, reversal_count >= 5 implies    *)
(* that important_snr is not empty.                                        *)
(***************************************************************************)
C26_FiveReversalsImplySample ==
    (Len(step_size) = 3 /\ reversal_count >= 5) => important_snr # <<>>

\* The fifth reversal has just been counted and exactly one sample exists.
C26_Witness ==
    /\ op = "update_variables"
    /\ Len(step_size) = 3
    /\ reversal_count = 5
    /\ Len(important_snr) = 1

C30_RemovedOnlyWhenIdle ==
    [][\A v \in DOMAIN state :
          (v \notin DOMAIN state' /\ request'.user # v) =>
              now - (IF state[v].has_last_update
                        /\ state[v].last_update > created[v]
                     THEN state[v].last_update
                     ELSE created[v]) > Timeout]_vars

====
